---- MODULE Spec2Model ----
(***************************************************************************)
(* A model of pyr_blend.py: Gaussian / Laplacian pyramids, reconstruction  *)
(* and pyramid blending of single-channel images.                          *)
(*                                                                         *)
(* Arithmetic is exact.  An image is a record [d, px]: px is a tuple of    *)
(* rows of integer numerators and d > 0 their common denominator, so the   *)
(* sample at (r, c) is px[r][c] / d.  A filter is a record [d, w]: the     *)
(* weights are w[k] / d.  Indices are 1-based here and 0-based in Python.  *)
(* Division in the resolution test is Python 3's true division.            *)
(***************************************************************************)
EXTENDS Integers, Sequences, FiniteSets, TLC

LOWEST_RES == 16

(* ---- bounds of the model ---- *)
MaxLevels == 3
MaxFilterSize == 4

(* ---- helpers: tuples, integers ---- *)

\* a function over 1..n as an evaluated tuple
Force(s) == s \o <<>>

RECURSIVE Pow2(_)
Pow2(n) == IF n <= 0 THEN 1 ELSE 2 * Pow2(n - 1)

RECURSIVE Gcd(_, _)
Gcd(a, b) == IF b = 0 THEN a ELSE Gcd(b, a % b)

Lcm(a, b) == (a \div Gcd(a, b)) * b

Rows(im) == Len(im.px)
Cols(im) == Len(im.px[1])
Shape(im) == <<Rows(im), Cols(im)>>

\* Python's range(a, b) has an element i
InRange(i, a, b) == a <= i /\ i < b

(* ---- scipy.signal.convolve2d of row vectors (mode 'full') ---- *)
c2d(a, b) ==
    LET n == Len(a) + Len(b) - 1
        RECURSIVE S(_, _)
        S(i, k) == IF k = 0 THEN 0
                   ELSE (IF i - k + 1 >= 1 /\ i - k + 1 <= Len(b)
                         THEN a[k] * b[i - k + 1] ELSE 0) + S(i, k - 1)
    IN Force([i \in 1..n |-> S(i, Len(a))])

RECURSIVE SumSeq(_)
SumSeq(s) == IF s = <<>> THEN 0 ELSE Head(s) + SumSeq(Tail(s))

\* the loop of make_filter_to_size: for i in range(size - 3)
RECURSIVE UpSize(_, _, _)
UpSize(blur_mask, blur_vector, n) ==
    IF n <= 0 THEN blur_mask
    ELSE UpSize(c2d(blur_mask, blur_vector), blur_vector, n - 1)

make_filter_to_size(size) ==
    LET blur_vector == <<1, 1>>
        blur_mask == UpSize(c2d(blur_vector, blur_vector), blur_vector, size - 3)
    IN [d |-> SumSeq(blur_mask), w |-> blur_mask]

(* ---- scipy.ndimage.convolve, mode 'reflect', origin 0 ---- *)

\* 0-based index j extended by reflection (d c b a | a b c d | d c b a)
Reflect(j, n) ==
    LET m == j % (2 * n) IN IF m < n THEN m ELSE 2 * n - 1 - m

\* the 0-based input index that weight k (1-based) of s meets at output i (1-based)
Tap(i, k, s, n) == Reflect((i - 1) + (s \div 2) - (k - 1), n) + 1

\* weights mult * fv of shape (1, s): along axis 1
convolve(im, fv, mult) ==
    LET s == Len(fv.w)
        R == Rows(im)
        C == Cols(im)
        RECURSIVE S(_, _, _)
        S(r, c, k) == IF k = 0 THEN 0
                      ELSE mult * fv.w[k] * im.px[r][Tap(c, k, s, C)] + S(r, c, k - 1)
    IN [d |-> im.d * fv.d,
        px |-> Force([r \in 1..R |-> Force([c \in 1..C |-> S(r, c, s)])])]

\* weights mult * fv.transpose() of shape (s, 1): along axis 0
convolveT(im, fv, mult) ==
    LET s == Len(fv.w)
        R == Rows(im)
        C == Cols(im)
        RECURSIVE S(_, _, _)
        S(r, c, k) == IF k = 0 THEN 0
                      ELSE mult * fv.w[k] * im.px[Tap(r, k, s, R)][c] + S(r, c, k - 1)
    IN [d |-> im.d * fv.d,
        px |-> Force([r \in 1..R |-> Force([c \in 1..C |-> S(r, c, s)])])]

\* the number of indices in a slice [::step] of n elements
SliceLen(n, step) == (n + step - 1) \div step

\* reduce_image with the slice [::2, ::2] at every level
reduce_image_by2(im, filter_vec, i) ==
    LET blurred == convolveT(convolve(im, filter_vec, 1), filter_vec, 1)
    IN [d |-> blurred.d,
        px |-> Force([r \in 1..SliceLen(Rows(im), 2) |->
                 Force([c \in 1..SliceLen(Cols(im), 2) |->
                    blurred.px[(r - 1) * 2 + 1][(c - 1) * 2 + 1]])])]

reduce_image(im, filter_vec, i) ==
    LET blurred == convolveT(convolve(im, filter_vec, 1), filter_vec, 1)
        step == Pow2(i)
    IN [d |-> blurred.d,
        px |-> Force([r \in 1..SliceLen(Rows(im), step) |->
                 Force([c \in 1..SliceLen(Cols(im), step) |->
                    blurred.px[(r - 1) * step + 1][(c - 1) * step + 1]])])]

expand_image(im, filter_vec) ==
    LET rows == Rows(im)
        cols == Cols(im)
        expand_im == [d |-> im.d,
                      px |-> Force([r \in 1..(rows * 2) |->
                               Force([c \in 1..(cols * 2) |->
                                  IF r % 2 = 1 /\ c % 2 = 1
                                  THEN im.px[(r + 1) \div 2][(c + 1) \div 2]
                                  ELSE 0])])]
    IN convolveT(convolve(expand_im, filter_vec, 2), filter_vec, 2)

(* ---- numpy element-wise arithmetic with broadcasting ---- *)

BDim(m, n) == IF m = 1 THEN n ELSE m
Broadcastable(a, b) ==
    /\ Rows(a) = Rows(b) \/ Rows(a) = 1 \/ Rows(b) = 1
    /\ Cols(a) = Cols(b) \/ Cols(a) = 1 \/ Cols(b) = 1
BShape(a, b) == <<BDim(Rows(a), Rows(b)), BDim(Cols(a), Cols(b))>>
At(a, r, c) == a.px[IF Rows(a) = 1 THEN 1 ELSE r][IF Cols(a) = 1 THEN 1 ELSE c]

Add(a, b) ==
    LET D == Lcm(a.d, b.d)
        fa == D \div a.d
        fb == D \div b.d
        sh == BShape(a, b)
    IN [d |-> D,
        px |-> Force([r \in 1..sh[1] |->
                 Force([c \in 1..sh[2] |-> fa * At(a, r, c) + fb * At(b, r, c)])])]

Sub(a, b) ==
    LET D == Lcm(a.d, b.d)
        fa == D \div a.d
        fb == D \div b.d
        sh == BShape(a, b)
    IN [d |-> D,
        px |-> Force([r \in 1..sh[1] |->
                 Force([c \in 1..sh[2] |-> fa * At(a, r, c) - fb * At(b, r, c)])])]

Mul(a, b) ==
    LET sh == BShape(a, b)
    IN [d |-> a.d * b.d,
        px |-> Force([r \in 1..sh[1] |->
                 Force([c \in 1..sh[2] |-> At(a, r, c) * At(b, r, c)])])]

\* 1 - a
OneMinus(a) ==
    [d |-> a.d,
     px |-> Force([r \in 1..Rows(a) |->
              Force([c \in 1..Cols(a) |-> a.d - a.px[r][c]])])]

\* a * coeff (an integer coefficient)
Scale(a, coeff) ==
    [d |-> a.d,
     px |-> Force([r \in 1..Rows(a) |->
              Force([c \in 1..Cols(a) |-> a.px[r][c] * coeff])])]

\* clip with the lower limit only
clipBelow(a) ==
    [d |-> a.d,
     px |-> Force([r \in 1..Rows(a) |->
              Force([c \in 1..Cols(a) |-> IF a.px[r][c] < 0 THEN 0 ELSE a.px[r][c]])])]

\* np.clip(a, 0, 1)
clip(a) ==
    [d |-> a.d,
     px |-> Force([r \in 1..Rows(a) |->
              Force([c \in 1..Cols(a) |->
                 IF a.px[r][c] < 0 THEN 0
                 ELSE IF a.px[r][c] > a.d THEN a.d ELSE a.px[r][c]])])]

\* the same array: same shape, same sample values
ImgEq(a, b) ==
    /\ Shape(a) = Shape(b)
    /\ \A r \in 1..Rows(a) : \A c \in 1..Cols(a) :
          a.px[r][c] * b.d = b.px[r][c] * a.d

(* ---- inputs ---- *)

\* sample (r, c) of the p-th test image of C columns: 0 zeros, 1 ones,
\* 2 ones on the left half and zeros on the right, 3.. a texture in -1..2
PatPx(p, r, c, C) ==
    CASE p = 0 -> 0
      [] p = 1 -> 1
      [] p = 2 -> IF c <= C \div 2 THEN 1 ELSE 0
      [] OTHER -> ((p * r + (p + 1) * c) % 4) - 1

Pattern(p, sh) ==
    [d |-> 1,
     px |-> Force([r \in 1..sh[1] |-> Force([c \in 1..sh[2] |-> PatPx(p, r, c, sh[2])])])]

\* the constant image n / d
Const(n, d, sh) ==
    [d |-> d, px |-> Force([r \in 1..sh[1] |-> Force([c \in 1..sh[2] |-> n])])]

Ones(n) == Force([x \in 1..n |-> 1])

NoImage == [d |-> 1, px |-> <<<<0>>>>]
NoFilter == [d |-> 1, w |-> <<>>]

\* shapes given to build_laplacian_pyramid / laplacian_to_image alone
RoundTripShapes ==
    { <<16, 16>>, <<2, 32>>, <<2, 33>>, <<2, 34>>, <<1, 34>>, <<3, 34>>,
      <<34, 2>>, <<2, 66>>, <<2, 68>>, <<4, 68>> }

\* shapes of (im1, im2, mask) given to pyramid_blending
BlendShapes ==
    { <<s, s, s>> : s \in { <<16, 16>>, <<2, 32>>, <<2, 33>>, <<2, 34>>, <<1, 34>> } }
    \cup { << <<32, 32>>, <<32, 31>>, <<32, 32>> >>,
           << <<2, 34>>, <<2, 33>>, <<2, 34>> >>,
           << <<2, 34>>, <<1, 34>>, <<2, 34>> >>,
           << <<2, 34>>, <<2, 34>>, <<1, 1>> >> }

RoundTripPatterns == {2, 3}
BlendPatterns == { <<a, b, m>> : a \in {2, 3}, b \in {1, 4}, m \in {0, 1, 2, 3} }

VARIABLES
    mode,               \* "roundtrip": build_laplacian_pyramid then laplacian_to_image; "blend": pyramid_blending
    im1, im2, mask, max_levels, filter_size_im, filter_size_mask,   \* the arguments
    pc,                 \* the position in the program
    err,                \* the exception raised, or "none"
    phase,              \* the pyramid being built: 1 of im1, 2 of im2, 3 of mask
    pyr, filter_vec, i, \* locals of build_gaussian_pyramid (filter_vec, i also of build_laplacian_pyramid)
    g_pyr, l_pyr,       \* locals of build_laplacian_pyramid
    lpyr_1, filter_vec_1, lpyr_2, g_m, L_out, k,    \* locals of pyramid_blending
    lpyr, rfilter, coeff, r_img, ri,                \* arguments and locals of laplacian_to_image
    result              \* the value returned to the caller

vars == <<mode, im1, im2, mask, max_levels, filter_size_im, filter_size_mask, pc, err,
          phase, pyr, filter_vec, i, g_pyr, l_pyr, lpyr_1, filter_vec_1, lpyr_2, g_m,
          L_out, k, lpyr, rfilter, coeff, r_img, ri, result>>

args == <<mode, im1, im2, mask, max_levels, filter_size_im, filter_size_mask>>
gaussLocals == <<pyr, filter_vec, i>>
lapLocals == <<g_pyr, l_pyr>>
blendLocals == <<lpyr_1, filter_vec_1, lpyr_2, g_m, L_out, k>>
reconLocals == <<lpyr, rfilter, coeff, r_img, ri>>

Start ==
    /\ pc = "gauss_init" /\ err = "none" /\ phase = 1
    /\ pyr = <<>> /\ filter_vec = NoFilter /\ i = 0
    /\ g_pyr = <<>> /\ l_pyr = <<>>
    /\ lpyr_1 = <<>> /\ filter_vec_1 = NoFilter /\ lpyr_2 = <<>> /\ g_m = <<>>
    /\ L_out = <<>> /\ k = 0
    /\ lpyr = <<>> /\ rfilter = NoFilter /\ coeff = <<>> /\ r_img = NoImage /\ ri = 0
    /\ result = NoImage

InitRoundTrip ==
    /\ mode = "roundtrip"
    /\ \E sh \in RoundTripShapes, p \in RoundTripPatterns : im1 = Pattern(p, sh)
    /\ im2 = NoImage /\ mask = NoImage
    /\ max_levels \in 1..MaxLevels
    /\ filter_size_im \in 1..MaxFilterSize
    /\ filter_size_mask = filter_size_im

InitBlend ==
    /\ mode = "blend"
    /\ \E sh \in BlendShapes, p \in BlendPatterns :
          /\ im1 = Pattern(p[1], sh[1])
          /\ im2 = Pattern(p[2], sh[2])
          /\ mask = Pattern(p[3], sh[3])
    /\ max_levels \in 1..MaxLevels
    /\ filter_size_im \in 1..MaxFilterSize
    /\ filter_size_mask \in 1..MaxFilterSize

\* two 64x64 constant images 0.2 and 0.8, the mask 1 on the left half, 4 levels, filters 5 and 3
InitScenario ==
    /\ mode = "blend"
    /\ im1 = Const(1, 5, <<64, 64>>)
    /\ im2 = Const(4, 5, <<64, 64>>)
    /\ mask = Pattern(2, <<64, 64>>)
    /\ max_levels = 4
    /\ filter_size_im = 5
    /\ filter_size_mask = 3

Init == Start /\ (InitRoundTrip \/ InitBlend \/ InitScenario)

(* ---- build_gaussian_pyramid ---- *)

\* the image and filter size the running builder was called with
CurIm == CASE phase = 1 -> im1 [] phase = 2 -> im2 [] OTHER -> mask
CurFilterSize == IF phase = 3 THEN filter_size_mask ELSE filter_size_im

Raise(e) ==
    /\ err' = e
    /\ pc' = "error"

\* the resolution test with "and" for "or"
AboveFloorBoth(im, n) ==
    LET resize_factor == Pow2(n)
    IN Rows(im) > LOWEST_RES * resize_factor /\ Cols(im) > LOWEST_RES * resize_factor

\* rows / resize_factor > LOWEST_RES or cols / resize_factor > LOWEST_RES
AboveFloor(im, n) ==
    LET resize_factor == Pow2(n)
    IN Rows(im) > LOWEST_RES * resize_factor \/ Cols(im) > LOWEST_RES * resize_factor

GaussInit ==
    /\ pc = "gauss_init"
    /\ pyr' = <<CurIm>>
    /\ filter_vec' = make_filter_to_size(CurFilterSize)
    /\ i' = 1
    /\ pc' = "gauss_loop"
    /\ UNCHANGED <<args, err, phase, lapLocals, blendLocals, reconLocals, result>>

GaussAppend ==
    /\ pc = "gauss_loop"
    /\ InRange(i, 1, max_levels)
    /\ AboveFloor(CurIm, i)
    /\ pyr' = Append(pyr, reduce_image(CurIm, filter_vec, i))
    /\ i' = i + 1
    /\ UNCHANGED <<args, pc, err, phase, filter_vec, lapLocals, blendLocals, reconLocals, result>>

\* return pyr, filter_vec: to build_laplacian_pyramid (im1, im2) or to pyramid_blending (mask)
GaussReturn ==
    /\ pyr' = <<>>
    /\ IF phase = 3
       THEN /\ g_m' = pyr
            /\ L_out' = <<>>
            /\ k' = 0
            /\ i' = 0
            /\ filter_vec' = NoFilter
            /\ pc' = "blend_loop"
            /\ UNCHANGED <<g_pyr, l_pyr, lpyr_1, filter_vec_1, lpyr_2>>
       ELSE /\ g_pyr' = pyr
            /\ l_pyr' = <<>>
            /\ i' = 0
            /\ pc' = "lap_loop"
            /\ UNCHANGED <<filter_vec, blendLocals>>
    /\ UNCHANGED <<args, err, phase, reconLocals, result>>

\* the else branch: got to the lowest resolution allowed
GaussFloor ==
    /\ pc = "gauss_loop"
    /\ InRange(i, 1, max_levels)
    /\ ~AboveFloor(CurIm, i)
    /\ GaussReturn

\* the loop ran out
GaussExhaust ==
    /\ pc = "gauss_loop"
    /\ ~InRange(i, 1, max_levels)
    /\ GaussReturn

(* ---- build_laplacian_pyramid ---- *)

LapStep ==
    /\ pc = "lap_loop"
    /\ InRange(i, 0, max_levels - 1)
    /\ IF i + 2 > Len(g_pyr)
       THEN Raise("IndexError") /\ UNCHANGED <<l_pyr, i>>
       ELSE LET expanded == expand_image(g_pyr[i + 2], filter_vec)
            IN IF ~Broadcastable(g_pyr[i + 1], expanded)
               THEN Raise("ValueError") /\ UNCHANGED <<l_pyr, i>>
               ELSE /\ l_pyr' = Append(l_pyr, Sub(g_pyr[i + 1], expanded))
                    /\ i' = i + 1
                    /\ UNCHANGED <<pc, err>>
    /\ UNCHANGED <<args, phase, pyr, filter_vec, g_pyr, blendLocals, reconLocals, result>>

\* l_pyr.append(g_pyr[-1]); return l_pyr, filter_vec
LapResult == Append(l_pyr, g_pyr[Len(g_pyr)])

LapReturn ==
    /\ pc = "lap_loop"
    /\ ~InRange(i, 0, max_levels - 1)
    /\ g_pyr' = <<>>
    /\ l_pyr' = <<>>
    /\ i' = 0

\* to the caller that reconstructs: laplacian_to_image(pyr, filter_vec, ones(max_levels))
LapReturnRoundTrip ==
    /\ mode = "roundtrip"
    /\ LapReturn
    /\ lpyr' = LapResult
    /\ rfilter' = filter_vec
    /\ coeff' = Ones(max_levels)
    /\ filter_vec' = NoFilter
    /\ pc' = "recon_init"
    /\ UNCHANGED <<args, err, phase, pyr, blendLocals, r_img, ri, result>>

\* lpyr_1, filter_vec_1 = build_laplacian_pyramid(im1, ...)
LapReturnIm1 ==
    /\ mode = "blend" /\ phase = 1
    /\ LapReturn
    /\ lpyr_1' = LapResult
    /\ filter_vec_1' = filter_vec
    /\ filter_vec' = NoFilter
    /\ phase' = 2
    /\ pc' = "gauss_init"
    /\ UNCHANGED <<args, err, pyr, lpyr_2, g_m, L_out, k, reconLocals, result>>

\* lpyr_2, filter_vec_2 = build_laplacian_pyramid(im2, ...)
LapReturnIm2 ==
    /\ mode = "blend" /\ phase = 2
    /\ LapReturn
    /\ lpyr_2' = LapResult
    /\ filter_vec' = NoFilter
    /\ phase' = 3
    /\ pc' = "gauss_init"
    /\ UNCHANGED <<args, err, pyr, lpyr_1, filter_vec_1, g_m, L_out, k, reconLocals, result>>

(* ---- pyramid_blending ---- *)

\* L_out[k] = (g_m[k] * lpyr_1[k]) + ((1 - g_m[k]) * lpyr_2[k])
BlendStep ==
    /\ pc = "blend_loop"
    /\ InRange(k, 0, Len(lpyr_1))
    /\ IF k + 1 > Len(g_m)
       THEN Raise("IndexError") /\ UNCHANGED <<L_out, k>>
       ELSE IF ~Broadcastable(g_m[k + 1], lpyr_1[k + 1])
       THEN Raise("ValueError") /\ UNCHANGED <<L_out, k>>
       ELSE IF k + 1 > Len(lpyr_2)
       THEN Raise("IndexError") /\ UNCHANGED <<L_out, k>>
       ELSE IF ~Broadcastable(g_m[k + 1], lpyr_2[k + 1])
       THEN Raise("ValueError") /\ UNCHANGED <<L_out, k>>
       ELSE LET left == Mul(g_m[k + 1], lpyr_1[k + 1])
                right == Mul(OneMinus(g_m[k + 1]), lpyr_2[k + 1])
            IN IF ~Broadcastable(left, right)
               THEN Raise("ValueError") /\ UNCHANGED <<L_out, k>>
               ELSE /\ L_out' = Append(L_out, Add(left, right))
                    /\ k' = k + 1
                    /\ UNCHANGED <<pc, err>>
    /\ UNCHANGED <<args, phase, gaussLocals, lapLocals, lpyr_1, filter_vec_1, lpyr_2, g_m,
                   reconLocals, result>>

\* im_blend = laplacian_to_image(L_out, filter_vec_1, np.ones(len(lpyr_1)))
BlendReconstruct ==
    /\ pc = "blend_loop"
    /\ ~InRange(k, 0, Len(lpyr_1))
    /\ lpyr' = L_out
    /\ rfilter' = filter_vec_1
    /\ coeff' = Ones(Len(lpyr_1))
    /\ pc' = "recon_init"
    /\ UNCHANGED <<args, err, phase, gaussLocals, lapLocals, blendLocals, r_img, ri, result>>

(* ---- laplacian_to_image ---- *)

\* levels = len(lpyr) - 2
levels == Len(lpyr) - 2

ReconInit ==
    /\ pc = "recon_init"
    /\ r_img' = Scale(lpyr[Len(lpyr)], coeff[Len(coeff)])
    /\ ri' = 0
    /\ pc' = "recon_loop"
    /\ UNCHANGED <<args, err, phase, gaussLocals, lapLocals, blendLocals, lpyr, rfilter, coeff, result>>

ReconStep ==
    /\ pc = "recon_loop"
    /\ InRange(ri, 0, levels + 1)
    /\ LET level == Scale(lpyr[levels - ri + 1], coeff[levels - ri + 1])
           expanded == expand_image(r_img, rfilter)
       IN IF ~Broadcastable(level, expanded)
          THEN Raise("ValueError") /\ UNCHANGED <<r_img, ri>>
          ELSE /\ r_img' = Add(level, expanded)
               /\ ri' = ri + 1
               /\ UNCHANGED <<pc, err>>
    /\ UNCHANGED <<args, phase, gaussLocals, lapLocals, blendLocals, lpyr, rfilter, coeff, result>>

\* return r_img, to the caller of laplacian_to_image
ReconReturnRoundTrip ==
    /\ pc = "recon_loop"
    /\ ~InRange(ri, 0, levels + 1)
    /\ mode = "roundtrip"
    /\ result' = r_img
    /\ pc' = "done"
    /\ UNCHANGED <<args, err, phase, gaussLocals, lapLocals, blendLocals, reconLocals>>

\* return np.clip(im_blend, 0, 1)
ClipReturn ==
    /\ pc = "recon_loop"
    /\ ~InRange(ri, 0, levels + 1)
    /\ mode = "blend"
    /\ result' = clip(r_img)
    /\ pc' = "done"
    /\ UNCHANGED <<args, err, phase, gaussLocals, lapLocals, blendLocals, reconLocals>>

Next ==
    \/ GaussInit
    \/ GaussAppend
    \/ GaussFloor
    \/ GaussExhaust
    \/ LapStep
    \/ LapReturnRoundTrip
    \/ LapReturnIm1
    \/ LapReturnIm2
    \/ BlendStep
    \/ BlendReconstruct
    \/ ReconInit
    \/ ReconStep
    \/ ReconReturnRoundTrip
    \/ ClipReturn

Spec == Init /\ [][Next]_vars

(* ---- properties ---- *)

Abs(x) == IF x < 0 THEN -x ELSE x
CeilDiv(n, m) == (n + m - 1) \div m

\* a call of build_laplacian_pyramid is running (g_pyr holds its Gaussian pyramid)
InLaplacianBuilder == g_pyr # <<>>
\* the residual of level i is about to be computed from levels that exist
LapStepPending == pc = "lap_loop" /\ InRange(i, 0, max_levels - 1) /\ i + 2 <= Len(g_pyr)
ReconStepPending == pc = "recon_loop" /\ InRange(ri, 0, levels + 1)
MultipleOf(im, m) == Rows(im) % m = 0 /\ Cols(im) % m = 0
SameShapes == Shape(im1) = Shape(im2) /\ Shape(im1) = Shape(mask)
Inputs == IF mode = "blend" THEN {im1, im2, mask} ELSE {im1}
InUnit(im) == \A r \in 1..Rows(im) : \A c \in 1..Cols(im) : 0 <= im.px[r][c] /\ im.px[r][c] <= im.d
AllEqual(im, n) == \A r \in 1..Rows(im) : \A c \in 1..Cols(im) : im.px[r][c] = n * im.d

\* C1: build_laplacian_pyramid completes also when the Gaussian builder stopped early at
\* the resolution floor: it never indexes past the Gaussian pyramid, and it returns as
\* many levels as the Gaussian pyramid has.
C1_LaplacianCompletesWithGaussianLength ==
    /\ ~(InLaplacianBuilder /\ err = "IndexError")
    /\ (pc = "lap_loop" /\ ~InRange(i, 0, max_levels - 1)) => Len(LapResult) = Len(g_pyr)

\* C2: for an image whose row and column counts are multiples of 2^(max_levels-1),
\* build_laplacian_pyramid followed by laplacian_to_image with max_levels ones completes
\* and returns the original image.
C2_RoundTripReturnsImage ==
    (mode = "roundtrip" /\ MultipleOf(im1, 2 ^ (max_levels - 1)))
        => /\ err = "none"
           /\ pc = "done" => ImgEq(result, im1)

\* the length C3 states: 1 + the number of consecutive n = 1, 2, .. below max_levels
\* with rows / 2^n > 16 or cols / 2^n > 16
C3_Length(im) ==
    1 + Cardinality({n \in 1..(max_levels - 1) :
                        \A m \in 1..n : Rows(im) > 16 * 2 ^ m \/ Cols(im) > 16 * 2 ^ m})

C3_Returned(p, im) ==
    /\ p[1] = im
    /\ Len(p) = C3_Length(im)
    /\ Len(p) <= max_levels
    /\ max_levels = 1 => Len(p) = 1

\* C3: the pyramid build_gaussian_pyramid returns has the input as level 0 and
\* 1 + (the number of consecutive levels passing the resolution test) levels, never more
\* than max_levels and exactly 1 when max_levels = 1.
C3_GaussianLength ==
    /\ pc = "lap_loop" => C3_Returned(g_pyr, CurIm)
    /\ g_m # <<>> => C3_Returned(g_m, mask)

\* C3's case: the builder stopped at the floor with 2 of 3 levels, and another returned all 3
C3_Witness ==
    \/ pc = "lap_loop" /\ max_levels = 3 /\ Len(g_pyr) = 2 /\ i = 0
    \/ pc = "blend_loop" /\ max_levels = 2 /\ Len(g_m) = 2

\* C4: make_filter(s), s >= 2, is s non-negative weights that sum to 1, and
\* make_filter(2) is [0.5, 0.5].
C4_FilterOfSize ==
    (filter_vec # NoFilter /\ CurFilterSize >= 2)
        => /\ Len(filter_vec.w) = CurFilterSize
           /\ \A n \in 1..Len(filter_vec.w) : filter_vec.w[n] >= 0
           /\ SumSeq(filter_vec.w) = filter_vec.d
           /\ CurFilterSize = 2 => \A n \in 1..Len(filter_vec.w) : 2 * filter_vec.w[n] = filter_vec.d

\* C5: blend of images and mask that do not share one shape fails with ShapeMismatch
\* before any pyramid is built.
C5_ShapeMismatchBeforePyramids ==
    (mode = "blend" /\ ~SameShapes)
        => /\ pc \in {"gauss_init", "error"}
           /\ pc = "error" => err = "ShapeMismatch"
           /\ phase = 1 /\ pyr = <<>> /\ g_pyr = <<>> /\ lpyr_1 = <<>>

\* C6: for same-shaped images with samples in [0, 1], blend with an all-ones mask
\* returns im1 and blend with an all-zeros mask returns im2.
C6_MaskSaturation ==
    (mode = "blend" /\ SameShapes /\ InUnit(im1) /\ InUnit(im2))
        => /\ AllEqual(mask, 1) => (err = "none" /\ (pc = "done" => ImgEq(result, im1)))
           /\ AllEqual(mask, 0) => (err = "none" /\ (pc = "done" => ImgEq(result, im2)))

\* C7: every sample of the image blend returns lies in [0, 1].
C7_BlendInUnitRange ==
    (mode = "blend" /\ pc = "done") => InUnit(result)

\* C7's case: a blend of at least two levels returned, and its reconstruction had a
\* sample above 1 and a sample below 0
C7_Witness ==
    /\ mode = "blend" /\ pc = "done" /\ max_levels >= 2
    /\ \E r \in 1..Rows(r_img) : \E c \in 1..Cols(r_img) : r_img.px[r][c] > r_img.d
    /\ \E r \in 1..Rows(r_img) : \E c \in 1..Cols(r_img) : r_img.px[r][c] < 0

\* |px / d - n / m| <= 1 / 20
Approx(px, d, n, m) == 20 * Abs(m * px - n * d) <= m * d

\* C8: the blend of the 64x64 constant images 0.2 and 0.8 with the half mask,
\* max_levels 4, filters 5 and 3, completes with a 64x64 image that is about 0.2 in the
\* first column and about 0.8 in the last.
C8_ScenarioCompletes ==
    (/\ mode = "blend" /\ max_levels = 4 /\ filter_size_im = 5 /\ filter_size_mask = 3
     /\ Shape(im1) = <<64, 64>> /\ SameShapes)
        => /\ err = "none"
           /\ pc = "done" =>
                 /\ Shape(result) = <<64, 64>>
                 /\ \A r \in 1..64 : /\ Approx(result.px[r][1], result.d, 1, 5)
                                     /\ Approx(result.px[r][64], result.d, 4, 5)

\* C9: make_filter(size) with size < 2 fails with InvalidArgument and returns no kernel.
C9_SmallSizeRejected ==
    CurFilterSize < 2
        => /\ filter_vec = NoFilter
           /\ pc \in {"gauss_init", "error"}
           /\ pc = "error" => err = "InvalidArgument"

\* level n (from 0) of a Gaussian pyramid of im has shape (ceil(rows/2^n), ceil(cols/2^n))
GaussianShapes(p, im) ==
    \A n \in 1..Len(p) :
        Shape(p[n]) = <<CeilDiv(Rows(im), 2 ^ (n - 1)), CeilDiv(Cols(im), 2 ^ (n - 1))>>

\* expand of x has twice the rows and columns of x, which is the shape of y
ExpandFits(x, fv, y) ==
    LET e == Shape(expand_image(x, fv))
    IN e = <<2 * Rows(x), 2 * Cols(x)>> /\ e = Shape(y)

ShapeConsistency ==
    /\ pc = "gauss_loop" => GaussianShapes(pyr, CurIm)
    /\ LapStepPending => ExpandFits(g_pyr[i + 2], filter_vec, g_pyr[i + 1])
    /\ ReconStepPending => ExpandFits(r_img, rfilter, lpyr[levels - ri + 1])
    /\ pc = "done" => Shape(result) = Shape(im1)

\* C10 as stated: for images of any positive dimensions, Gaussian level i has shape
\* (ceil(rows/2^i), ceil(cols/2^i)), expand doubles both dimensions, and at every step of
\* build_laplacian_pyramid and laplacian_to_image the expanded coarser level has the
\* shape of the finer level, so the reconstructed image has the shape of the finest level.
C10_ShapesAnyDimensions == ShapeConsistency

\* every image of the call has row and column counts that are multiples of
\* 2^(max_levels-1), and the images of a blend share one shape
EvenDimensions ==
    /\ \A im \in Inputs : MultipleOf(im, 2 ^ (max_levels - 1))
    /\ mode = "blend" => SameShapes

\* C10 amended: the Gaussian shapes hold for any dimensions; the expanded level has the
\* shape of the finer level, and the reconstruction the shape of the input, when the row
\* and column counts are multiples of 2^(max_levels-1).
C10_ShapesEvenDimensions ==
    /\ pc = "gauss_loop" => GaussianShapes(pyr, CurIm)
    /\ EvenDimensions => ShapeConsistency

\* C10's case: a 3-level pyramid of a 4x68 image at its second reconstruction step
C10_Witness ==
    /\ mode = "roundtrip" /\ max_levels = 3 /\ EvenDimensions
    /\ ReconStepPending /\ ri = 1 /\ Len(lpyr) = 3

====
